---- MODULE Spec2Model ----
(***************************************************************************)
(* Model of rmv-backend-go (src/main.go, second revision, lines 123-323):  *)
(* the RWMutex-protected TTL Cache (Get / Set), the read-through           *)
(* fetchDepartures and the clock the cache compares expiry against (Spec), *)
(* and the HTTP server built on them: corsMiddleware in front of the       *)
(* GET /next-departures handler (SpecServer).                              *)
(*                                                                         *)
(* Time is counted in minutes.  time.Time{} (the zero time a freshly       *)
(* inserted map slot carries before its fields are stored) is ZeroTime.    *)
(***************************************************************************)
EXTENDS Integers, FiniteSets, Sequences, TLC

\* ---------------------------------------------------------------- bounds
MaxTime == 7           \* the latest instant the clock is read at
MaxTTL == 1            \* ttl arguments of direct Set calls: 0..MaxTTL
MaxCalls == 2          \* invocations (Get, Set, fetchDepartures) started in one run

\* ------------------------------------------------------ program constants
FetchTTL == 5          \* cache.Set(cacheKey, data, 5*time.Minute)
StatusOK == 200        \* http.StatusOK
StatusInternalServerError == 500
StatusNoContent == 204

Procs == {"p1", "p2"}                 \* goroutines (one per request / caller)
Keys == {"k1", "k2"}                  \* stop identifiers
Payloads == {"d1", "d2"}              \* decoded upstream payloads / Set values
NilData == "nil"                      \* Go nil
NoErr == "nil"                        \* nil error
ZeroTime == 0
TTLs == 0..MaxTTL
None == "none"

VARIABLES
  now,       \* the latest instant time.Now() has returned
  entries,   \* c.entries : key -> cacheEntry (present = key is in the map)
  readers,   \* c.mu : goroutines holding the read lock
  wOwner,    \* c.mu : goroutine holding the write lock, or None
  pc,        \* per goroutine: position in the code
  loc,       \* per goroutine: the locals of the running call
  gh,        \* per goroutine: history of the running call (calls made, clock read)
  seq,       \* per key: number of Set calls that have taken the lock so far
  lastSet,   \* per key: the most recent Set call that has returned
  calls,     \* number of invocations started so far
  config     \* the Config main builds from the environment

vars == <<now, entries, readers, wOwner, pc, loc, gh, seq, lastSet, calls, config>>

\* ------------------------------------------------------------ cacheEntry
\* data / expiresAt are the struct fields (lines 149-152); dVer / eVer record
\* which Set call (numbered per key in lock order) stored each field.
NoEntry == [present |-> FALSE, data |-> NilData, expiresAt |-> ZeroTime, dVer |-> 0, eVer |-> 0]

\* ver = which Set it was, due = the instant it was made plus its ttl
NoSet == [ver |-> 0, data |-> NilData, due |-> ZeroTime, fetch |-> FALSE]

\* no upstream exchange (yet)
NoResp == [doErr |-> None, status |-> 0, body |-> None]

\* a response body: nothing written, a JSON document, or plain text
NoBody == [kind |-> "none", content |-> ""]

\* status, body: what has been written to the http.ResponseWriter;
\* method, origin: the request line and Origin header; cors: the headers
\* corsMiddleware has set; cancelled: r.Context() is done.
InitLoc == [op |-> None, key |-> None, data |-> NilData, ttl |-> 0, entry |-> NoEntry,
            ok |-> FALSE, got |-> NilData, expiresAt |-> ZeroTime,
            val |-> NilData, err |-> NoErr, status |-> 0, body |-> NoBody,
            method |-> None, origin |-> "", cors |-> {}, cancelled |-> FALSE]

\* nUp, nSet: upstream calls and Set calls made by the running call;
\* gNow, rSeq: the clock reading of its Get and seq of its key at that moment;
\* fresh: lastSet of its key when the call started; prior, due, ver: the entry
\* its Set replaced, the instant of its Set plus ttl, the number of its Set;
\* resp: what the upstream exchange produced.
InitGh == [nUp |-> 0, nSet |-> 0, gNow |-> ZeroTime, rSeq |-> 0, fresh |-> NoSet,
           prior |-> NoEntry, due |-> ZeroTime, ver |-> 0,
           resp |-> NoResp]

\* ---------------------------------------------------------------- Config
\* lines 191-219: AllowedOrigins holds the non-empty trimmed items of
\* ALLOWED_ORIGINS (slices.Contains is all that reads it, so it is a set);
\* StopID is non-empty or main exits.
AllowLists == {{}, {"https://a"}, {"*"}}
StopIDs == {"k1"}
Configs == [StopID : StopIDs, AllowedOrigins : AllowLists]

\* NewCache (lines 159-163): an empty map, an unlocked mutex.  The cache is
\* exercised by callers that pass their own keys; the Config plays no part.
Init ==
  /\ config = [StopID |-> "k1", AllowedOrigins |-> {}]
  /\ now = 1
  /\ entries = [k \in Keys |-> NoEntry]
  /\ readers = {}
  /\ wOwner = None
  /\ pc = [p \in Procs |-> "idle"]
  /\ loc = [p \in Procs |-> InitLoc]
  /\ gh = [p \in Procs |-> InitGh]
  /\ seq = [k \in Keys |-> 0]
  /\ lastSet = [k \in Keys |-> NoSet]
  /\ calls = 0

\* ------------------------------------------------------------------ time
\* time.Now() carries a monotonic reading: successive calls, from whatever
\* goroutine, return non-decreasing instants.  now is the latest instant
\* returned; a call returns any instant from now on.
Instants == 1..MaxTime
NowReadings == {t \in Instants : t >= now}

\* t.After(u)
After(t, u) == t > u

\* Mutation: the ttl is not added.
Expiry_NoTTL(t, ttl) == t

\* time.Now().Add(ttl)
Expiry(t, ttl) == t + ttl

\* ------------------------------------------------------------ scheduling
\* Handing a result back to the caller (Return) touches nothing but the
\* returning goroutine's own locals, so it commutes with every step of the
\* other goroutines; it is scheduled first.  Every other step waits for it.
NoReturnPending == \A q \in Procs : pc[q] # "done"

\* ----------------------------------------------- GET /next-departures
\* line 229: the fixed text of http.Error
GenericBody == "Failed to fetch departures"

\* line 234: json.NewEncoder(w).Encode(departures); the value is what
\* json.Decode produced (or nil never, a hit or a decoded body always), so
\* encoding cannot fail.
Encode(v) == [kind |-> "json", content |-> v]

\* Mutation: the error text is sent to the client.
HandlerResponse_Leaky(val, err) ==
  IF err # NoErr
    THEN [status |-> StatusInternalServerError, body |-> [kind |-> "text", content |-> err]]
    ELSE [status |-> StatusOK, body |-> Encode(val)]

\* lines 227-236: what the handler writes for the result of fetchDepartures.
HandlerResponse(val, err) ==
  IF err # NoErr
    THEN [status |-> StatusInternalServerError,
          body |-> [kind |-> "text", content |-> GenericBody]]
    ELSE [status |-> StatusOK, body |-> Encode(val)]

\* lines 226-236: when fetchDepartures returns, the handler writes the
\* response from its result; this touches no shared state and is part of
\* the step that returns.  l are the locals at the return, d tells whether
\* the call returns in this step.
Finish(l, d) ==
  IF d /\ l.op = "fetch"
    THEN [l EXCEPT !.status = HandlerResponse(l.val, l.err).status,
                   !.body = HandlerResponse(l.val, l.err).body]
    ELSE l

\* ------------------------------------------------------------- Cache.Get
\* A caller invokes cache.Get(key) directly.
GetCall(p) ==
  /\ NoReturnPending
  /\ pc[p] = "idle"
  /\ calls < MaxCalls
  /\ calls' = calls + 1
  /\ \E k \in Keys :
       /\ loc' = [loc EXCEPT ![p] = [InitLoc EXCEPT !.op = "get", !.key = k]]
       /\ gh' = [gh EXCEPT ![p] = [InitGh EXCEPT !.fresh = lastSet[k]]]
  /\ pc' = [pc EXCEPT ![p] = "get_rlock"]
  /\ UNCHANGED <<now, entries, readers, wOwner, seq, lastSet, config>>

\* Mutation: RLock never waits for a writer.
RLockAdmits_Always(w) == TRUE

\* c.mu.RLock() admits a reader unless a writer holds the lock.
RLockAdmits(w) == w = None

\* line 166: c.mu.RLock()
GetRLock(p) ==
  /\ NoReturnPending
  /\ pc[p] = "get_rlock"
  /\ RLockAdmits(wOwner)
  /\ readers' = readers \cup {p}
  /\ pc' = [pc EXCEPT ![p] = "get_read"]
  /\ UNCHANGED <<now, entries, wOwner, loc, gh, seq, lastSet, calls, config>>

\* Mutation: the expiry test is inverted (Before instead of After).
GetResult_Inverted(e, t) ==
  IF ~e.present \/ t < e.expiresAt
    THEN [data |-> NilData, ok |-> FALSE]
    ELSE [data |-> e.data, ok |-> TRUE]

\* lines 168-172: the lookup and the expiry test decide the result.
GetResult(e, t) ==
  IF ~e.present \/ After(t, e.expiresAt)
    THEN [data |-> NilData, ok |-> FALSE]
    ELSE [data |-> e.data, ok |-> TRUE]

\* Mutation: Get returns without releasing the read lock.
ReleaseRead_Forgot(rs, p) == rs

\* the deferred c.mu.RUnlock()
ReleaseRead(rs, p) == rs \ {p}

\* Mutation: the hit is ignored and the upstream is called anyway.
AfterGet_AlwaysFetch(ok) == "fetch_wait"

\* Mutation: a miss waits for a fetch that is already in flight (single
\* flight) instead of calling the upstream itself.
AfterGet_Coalesce(ok) ==
  IF ok THEN "done"
  ELSE IF \E q \in Procs : pc[q] = "fetch_wait" THEN "get_rlock"
  ELSE "fetch_wait"

\* lines 273-276 / 278: what fetchDepartures does with Get's answer.
AfterGet(ok) == IF ok THEN "done" ELSE "fetch_wait"

\* Mutation: Get deletes the entry it finds expired.
MapAfterGet_Evict(es, k, ok) == IF ok THEN es ELSE [es EXCEPT ![k] = NoEntry]

\* lines 165-173: Get has no statement that writes c.entries.
MapAfterGet(es, k, ok) == es

\* lines 168-172 and the deferred RUnlock of line 167: entry, ok :=
\* c.entries[key]; time.Now().After(entry.expiresAt); return.  The map cannot
\* change while the read lock is held and everything after the lookup works
\* on the local copy, so lookup, clock read and release are one step.  For
\* fetchDepartures the step runs on to the next shared effect: the return of
\* lines 273-276 on a hit, or lines 278-299 on a miss, where the request is
\* built (the URL is a constant, so neither url.Parse nor
\* NewRequestWithContext fails) and client.Do sends it.
GetRead(p) ==
  /\ NoReturnPending
  /\ pc[p] = "get_read"
  /\ \E t \in NowReadings :
       LET e == entries[loc[p].key]
           r == GetResult(e, t)
       IN /\ now' = t
          /\ entries' = MapAfterGet(entries, loc[p].key, r.ok)
          /\ LET nxt == IF loc[p].op = "fetch" THEN AfterGet(r.ok) ELSE "done"
                 l == [loc[p] EXCEPT !.entry = e, !.got = r.data, !.ok = r.ok,
                                     !.val = r.data]
             IN /\ pc' = [pc EXCEPT ![p] = nxt]
                /\ loc' = [loc EXCEPT ![p] = Finish(l, nxt = "done")]
                /\ gh' = [gh EXCEPT ![p].gNow = t, ![p].rSeq = seq[loc[p].key],
                                    ![p].nUp = IF nxt = "fetch_wait" THEN @ + 1 ELSE @]
  /\ readers' = ReleaseRead(readers, p)
  /\ UNCHANGED <<wOwner, seq, lastSet, calls, config>>

\* ------------------------------------------------------------- Cache.Set
\* A caller invokes cache.Set(key, data, ttl) directly.
SetCall(p) ==
  /\ NoReturnPending
  /\ pc[p] = "idle"
  /\ calls < MaxCalls
  /\ calls' = calls + 1
  /\ \E k \in Keys, d \in Payloads, t \in TTLs :
       loc' = [loc EXCEPT ![p] = [InitLoc EXCEPT !.op = "set", !.key = k, !.data = d, !.ttl = t]]
  /\ gh' = [gh EXCEPT ![p] = [InitGh EXCEPT !.nSet = 1]]
  /\ pc' = [pc EXCEPT ![p] = "set_lock"]
  /\ UNCHANGED <<now, entries, readers, wOwner, seq, lastSet, config>>

\* Mutation: Lock() does not wait for the readers to leave.
LockGranted_IgnoresReaders(rs, w) == w = None

\* c.mu.Lock() is granted when no goroutine holds the lock in either mode.
LockGranted(rs, w) == rs = {} /\ w = None

\* line 176: c.mu.Lock()
SetLock(p) ==
  /\ NoReturnPending
  /\ pc[p] = "set_lock"
  /\ LockGranted(readers, wOwner)
  /\ wOwner' = p
  /\ pc' = [pc EXCEPT ![p] = "set_data"]
  /\ UNCHANGED <<now, entries, readers, loc, gh, seq, lastSet, calls, config>>

\* Mutation: the store is lost (it goes to a copy of the map).
StoreData_Lost(e, d, v) == e

\* Mutation: the assignment clobbers every slot of the map.
MapAssign_All(es, k, e) == [x \in DOMAIN es |-> e]

\* line 178: c.entries[key] = ... assigns the slot of key and no other.
MapAssign(es, k, e) == [es EXCEPT ![k] = e]

\* lines 178-181, first half: time.Now().Add(ttl) is evaluated, the key is
\* inserted if missing (zero-valued slot) and the data field is stored.
StoreData(e, d, v) == [e EXCEPT !.present = TRUE, !.data = d, !.dVer = v]

\* Mutation: an expiry is only ever extended, never shortened.
StoreExpiry_KeepLater(e, x, v) ==
  [e EXCEPT !.expiresAt = IF @ > x THEN @ ELSE x, !.eVer = v]

\* lines 178-181, second half: the expiresAt field is stored.
StoreExpiry(e, x, v) == [e EXCEPT !.expiresAt = x, !.eVer = v]

SetData(p) ==
  /\ NoReturnPending
  /\ pc[p] = "set_data"
  /\ \E t \in NowReadings :
       LET k == loc[p].key
       IN /\ now' = t
          /\ seq' = [seq EXCEPT ![k] = @ + 1]
          /\ gh' = [gh EXCEPT ![p].prior = entries[k], ![p].due = t + loc[p].ttl,
                              ![p].ver = seq[k] + 1]
          /\ entries' = MapAssign(entries, k, StoreData(entries[k], loc[p].data, seq[k] + 1))
          /\ loc' = [loc EXCEPT ![p].expiresAt = Expiry(t, loc[p].ttl)]
  /\ pc' = [pc EXCEPT ![p] = "set_exp"]
  /\ UNCHANGED <<readers, wOwner, lastSet, calls, config>>

\* Mutation: Set returns without releasing the write lock.
ReleaseWrite_Forgot(p) == p

\* the deferred c.mu.Unlock(): the new owner of the write lock
ReleaseWrite(p) == None

\* lines 178-181, second half, and the deferred c.mu.Unlock() of line 177;
\* Set returns.  In fetchDepartures the log line and `return data, nil`
\* (lines 320-322) follow without touching shared state.
SetExp(p) ==
  /\ NoReturnPending
  /\ pc[p] = "set_exp"
  /\ LET k == loc[p].key
     IN /\ entries' = MapAssign(entries, k, StoreExpiry(entries[k], loc[p].expiresAt, gh[p].ver))
        /\ lastSet' = [lastSet EXCEPT ![k] =
                         [ver |-> gh[p].ver, data |-> loc[p].data, due |-> gh[p].due,
                          fetch |-> loc[p].op = "fetch"]]
  /\ wOwner' = ReleaseWrite(p)
  /\ loc' = [loc EXCEPT ![p] =
               Finish([loc[p] EXCEPT !.val = IF loc[p].op = "fetch" THEN loc[p].data
                                             ELSE NilData], TRUE)]
  /\ pc' = [pc EXCEPT ![p] = "done"]
  /\ UNCHANGED <<now, readers, gh, seq, calls, config>>

\* ------------------------------------------------------- fetchDepartures
\* What the upstream exchange can produce: client.Do fails (transport error,
\* the 10 s client timeout, the request context cancelled) or yields a
\* response with a status and a body that decodes or does not.
Malformed == "malformed"
Statuses == {StatusOK, 503}
DoErrs == {"transport", "timeout", "canceled"}
Responses ==
  {[doErr |-> e, status |-> 0, body |-> None] : e \in DoErrs}
    \cup [doErr : {NoErr}, status : Statuses, body : Payloads \cup {Malformed}]

\* Mutation: a body that does not decode is passed on as it is.
FetchOutcome_NoDecodeCheck(r) ==
  IF r.doErr # NoErr THEN [val |-> NilData, err |-> r.doErr]
  ELSE IF r.status # StatusOK THEN [val |-> NilData, err |-> "status"]
  ELSE [val |-> r.body, err |-> NoErr]

\* Mutation: the status check is missing.
FetchOutcome_NoStatus(r) ==
  IF r.doErr # NoErr THEN [val |-> NilData, err |-> r.doErr]
  ELSE IF r.body = Malformed THEN [val |-> NilData, err |-> "decode"]
  ELSE [val |-> r.body, err |-> NoErr]

\* lines 299-317: the checks between client.Do and cache.Set.
FetchOutcome(r) ==
  IF r.doErr # NoErr THEN [val |-> NilData, err |-> r.doErr]
  ELSE IF r.status # StatusOK THEN [val |-> NilData, err |-> "status"]
  ELSE IF r.body = Malformed THEN [val |-> NilData, err |-> "decode"]
  ELSE [val |-> r.body, err |-> NoErr]

\* Mutation: on an upstream failure the stale entry seen by Get is returned.
FailResult_Stale(l, e) == [val |-> l.entry.data, err |-> e]

\* lines 301, 311, 316: `return nil, err`; l are the locals of the call.
FailResult(l, e) == [val |-> NilData, err |-> e]

\* Mutation: a failed exchange is retried from the top.
AfterResponse_Retry(o) == IF o.err = NoErr THEN "set_lock" ELSE "get_rlock"

\* lines 310-319: only a decoded 200 response reaches cache.Set.
AfterResponse(o) == IF o.err = NoErr THEN "set_lock" ELSE "done"

\* lines 225-226, 271-273: the handler calls fetchDepartures(ctx, cache,
\* apiKey, stopID), which starts with cache.Get(cacheKey).
FetchCall(p) ==
  /\ NoReturnPending
  /\ pc[p] = "idle"
  /\ calls < MaxCalls
  /\ calls' = calls + 1
  /\ \E k \in Keys :
       /\ loc' = [loc EXCEPT ![p] = [InitLoc EXCEPT !.op = "fetch", !.key = k]]
       /\ gh' = [gh EXCEPT ![p] = [InitGh EXCEPT !.fresh = lastSet[k]]]
  /\ pc' = [pc EXCEPT ![p] = "get_rlock"]
  /\ UNCHANGED <<now, entries, readers, wOwner, seq, lastSet, config>>

\* Mutation: the request is built without the handler's context.
Outcomes_Detached(c) == Responses

\* lines 226, 294, 299: the request carries r.Context(), so once that
\* context is done (c) client.Do gives up with the context's error;
\* otherwise the exchange ends in any of the ways above.
Outcomes(c) == IF c THEN {r \in Responses : r.doErr = "canceled"} ELSE Responses

\* lines 299-319: client.Do returns; on any failure fetchDepartures returns
\* the error, otherwise it calls cache.Set(cacheKey, data, 5*time.Minute).
UpstreamRespond(p) ==
  /\ NoReturnPending
  /\ pc[p] = "fetch_wait"
  /\ \E r \in Outcomes(loc[p].cancelled) :
       LET o == FetchOutcome(r)
           nxt == AfterResponse(o)
       IN /\ pc' = [pc EXCEPT ![p] = nxt]
          /\ IF nxt = "set_lock"
               THEN /\ loc' = [loc EXCEPT ![p].data = o.val, ![p].ttl = FetchTTL]
                    /\ gh' = [gh EXCEPT ![p].nSet = @ + 1, ![p].resp = r]
               ELSE /\ loc' = [loc EXCEPT ![p] =
                                 Finish([loc[p] EXCEPT !.val = FailResult(loc[p], o.err).val,
                                                       !.err = FailResult(loc[p], o.err).err],
                                        nxt = "done")]
                    /\ gh' = [gh EXCEPT ![p].resp = r]
  /\ UNCHANGED <<now, entries, readers, wOwner, seq, lastSet, calls, config>>

\* The call has returned to its caller; the goroutine is free again.
Return(p) ==
  /\ pc[p] = "done"
  /\ pc' = [pc EXCEPT ![p] = "idle"]
  /\ loc' = [loc EXCEPT ![p] = InitLoc]
  /\ gh' = [gh EXCEPT ![p] = InitGh]
  /\ UNCHANGED <<now, entries, readers, wOwner, seq, lastSet, calls, config>>

Next ==
  \/ \E p \in Procs : GetCall(p)
  \/ \E p \in Procs : GetRLock(p)
  \/ \E p \in Procs : GetRead(p)
  \/ \E p \in Procs : SetCall(p)
  \/ \E p \in Procs : SetLock(p)
  \/ \E p \in Procs : SetData(p)
  \/ \E p \in Procs : SetExp(p)
  \/ \E p \in Procs : FetchCall(p)
  \/ \E p \in Procs : UpstreamRespond(p)
  \/ \E p \in Procs : Return(p)

Spec == Init /\ [][Next]_vars

\* ------------------------------------------- the cache under fair scheduling
\* Cache.Get and Cache.Set called by any callers (lines 165-182).
NextCache ==
  \/ \E p \in Procs : GetCall(p)
  \/ \E p \in Procs : GetRLock(p)
  \/ \E p \in Procs : GetRead(p)
  \/ \E p \in Procs : SetCall(p)
  \/ \E p \in Procs : SetLock(p)
  \/ \E p \in Procs : SetData(p)
  \/ \E p \in Procs : SetExp(p)
  \/ \E p \in Procs : Return(p)

\* The steps of a call once it has been made; at most one is enabled for a
\* goroutine at a time.
Proceed(p) ==
  \/ GetRLock(p)
  \/ GetRead(p)
  \/ SetLock(p)
  \/ SetData(p)
  \/ SetExp(p)
  \/ Return(p)

\* The Go scheduler runs every runnable goroutine eventually, and a
\* goroutine blocked in RLock or Lock is woken when the lock stays free:
\* weak fairness of each goroutine's steps (sync.RWMutex promises more, it
\* does not starve a waiter).  Callers are free never to call: GetCall and
\* SetCall carry no fairness.
Fairness == \A p \in Procs : WF_vars(Proceed(p))

SpecFair == Init /\ [][NextCache]_vars /\ Fairness

\* ------------------------------------------------------------ the server
\* main (lines 184-251): the Config is read once, the cache is empty, and
\* the only entry point is corsMiddleware(mux, config.AllowedOrigins).
InitServer ==
  /\ config \in Configs
  /\ now = 1
  /\ entries = [k \in Keys |-> NoEntry]
  /\ readers = {}
  /\ wOwner = None
  /\ pc = [p \in Procs |-> "idle"]
  /\ loc = [p \in Procs |-> InitLoc]
  /\ gh = [p \in Procs |-> InitGh]
  /\ seq = [k \in Keys |-> 0]
  /\ lastSet = [k \in Keys |-> NoSet]
  /\ calls = 0

Methods == {"GET", "OPTIONS"}
Origins == {"", "https://a", "https://b"}     \* "" = no Origin header

\* Mutation: any origin is reflected.
CorsHeaders_Any(origin, allowed) ==
  IF origin # ""
    THEN {<<"Access-Control-Allow-Origin", origin>>,
          <<"Access-Control-Allow-Methods", "GET, POST, OPTIONS">>,
          <<"Access-Control-Allow-Headers", "Content-Type, Authorization">>}
    ELSE {}

\* lines 255-260: the headers corsMiddleware sets.
CorsHeaders(origin, allowed) ==
  IF origin # "" /\ (origin \in allowed \/ "*" \in allowed)
    THEN {<<"Access-Control-Allow-Origin", origin>>,
          <<"Access-Control-Allow-Methods", "GET, POST, OPTIONS">>,
          <<"Access-Control-Allow-Headers", "Content-Type, Authorization">>}
    ELSE {}

\* Mutation: the preflight is passed on to the mux.
IsPreflight_Never(m) == FALSE

\* line 262: r.Method == http.MethodOptions
IsPreflight(m) == m = "OPTIONS"

\* lines 254-267, 225-226, 271-273: a request arrives.  corsMiddleware sets
\* its headers; an OPTIONS request is answered 204 there and then; a GET
\* goes on to the handler, which calls fetchDepartures with config.StopID,
\* which calls cache.Get(cacheKey).
Serve(p) ==
  /\ NoReturnPending
  /\ pc[p] = "idle"
  /\ calls < MaxCalls
  /\ calls' = calls + 1
  /\ \E m \in Methods, o \in Origins :
       LET l == [InitLoc EXCEPT !.method = m, !.origin = o,
                                !.cors = CorsHeaders(o, config.AllowedOrigins)]
           k == config.StopID
       IN IF IsPreflight(m)
            THEN /\ loc' = [loc EXCEPT ![p] = [l EXCEPT !.op = "options",
                                                        !.status = StatusNoContent]]
                 /\ gh' = [gh EXCEPT ![p] = InitGh]
                 /\ pc' = [pc EXCEPT ![p] = "done"]
            ELSE /\ loc' = [loc EXCEPT ![p] = [l EXCEPT !.op = "fetch", !.key = k]]
                 /\ gh' = [gh EXCEPT ![p] = [InitGh EXCEPT !.fresh = lastSet[k]]]
                 /\ pc' = [pc EXCEPT ![p] = "get_rlock"]
  /\ UNCHANGED <<now, entries, readers, wOwner, seq, lastSet, config>>

\* The client goes away while the upstream call of its request is in
\* flight: net/http cancels r.Context(), the context line 226 hands to
\* fetchDepartures.  (A context cancelled before client.Do is covered by the
\* "canceled" outcome of Responses; one cancelled after it changes nothing.)
Cancel(p) ==
  /\ NoReturnPending
  /\ pc[p] = "fetch_wait"
  /\ ~loc[p].cancelled
  /\ loc' = [loc EXCEPT ![p].cancelled = TRUE]
  /\ UNCHANGED <<now, entries, readers, wOwner, pc, gh, seq, lastSet, calls, config>>

NextServer ==
  \/ \E p \in Procs : Serve(p)
  \/ \E p \in Procs : Cancel(p)
  \/ \E p \in Procs : GetRLock(p)
  \/ \E p \in Procs : GetRead(p)
  \/ \E p \in Procs : UpstreamRespond(p)
  \/ \E p \in Procs : SetLock(p)
  \/ \E p \in Procs : SetData(p)
  \/ \E p \in Procs : SetExp(p)
  \/ \E p \in Procs : Return(p)

SpecServer == InitServer /\ [][NextServer]_vars

\* ================================================================ claims
\* The call of p has passed the lookup of Cache.Get: loc[p].entry, ok, got
\* and gh[p].gNow hold what that Get saw.
HasRead(p) ==
  /\ loc[p].op \in {"get", "fetch"}
  /\ pc[p] \in {"done", "fetch_wait", "set_lock", "set_data", "set_exp"}

\* The upstream exchange failed: transport error, timeout, cancellation,
\* non-200 status or undecodable body.
Failed(r) == r # NoResp /\ (r.doErr # NoErr \/ r.status # 200 \/ r.body = Malformed)
Succeeded(r) == r # NoResp /\ r.doErr = NoErr /\ r.status = 200 /\ r.body \in Payloads

\* C1: Get reports found = false whenever the key has no entry or the entry's
\* expiresAt is at or before the instant Get reads the clock (now == expiresAt
\* included).
C1_ExpiredAtOrBefore ==
  \A p \in Procs :
    (HasRead(p) /\ (~loc[p].entry.present \/ loc[p].entry.expiresAt <= gh[p].gNow))
      => ~loc[p].ok

\* C2: a fetchDepartures whose Get reported found = true returns the cached
\* value with no error, having made no upstream call and no Set call.
C2_HitNoUpstream ==
  \A p \in Procs :
    (loc[p].op = "fetch" /\ HasRead(p) /\ loc[p].ok)
      => /\ pc[p] = "done"
         /\ gh[p].nUp = 0
         /\ gh[p].nSet = 0
         /\ loc[p].val = loc[p].entry.data
         /\ loc[p].err = NoErr

C2_Witness ==
  \E p \in Procs :
    loc[p].op = "fetch" /\ pc[p] = "done" /\ loc[p].ok /\ loc[p].val \in Payloads

\* C3: a fetchDepartures that finds no entry and whose upstream succeeds makes
\* exactly one upstream call and returns its payload; a fetchDepartures
\* started after such a call returned, reading the clock before that call's
\* Set instant + FetchTTL and with no other Set on the key in between, makes
\* no upstream call and returns the same value.
C3_ReadThrough ==
  \A p \in Procs :
    loc[p].op = "fetch" /\ HasRead(p) =>
      /\ (~loc[p].entry.present => gh[p].nUp = 1)
      /\ (~loc[p].entry.present /\ pc[p] = "done" /\ Succeeded(gh[p].resp)
            => loc[p].val = gh[p].resp.body /\ loc[p].err = NoErr)
      /\ (gh[p].fresh.fetch /\ gh[p].rSeq = gh[p].fresh.ver /\ gh[p].gNow < gh[p].fresh.due
            => /\ loc[p].ok
               /\ gh[p].nUp = 0
               /\ pc[p] = "done"
               /\ loc[p].val = gh[p].fresh.data
               /\ loc[p].err = NoErr)

C3_Witness ==
  \E p \in Procs :
    /\ loc[p].op = "fetch" /\ pc[p] = "done"
    /\ gh[p].fresh.fetch /\ gh[p].rSeq = gh[p].fresh.ver /\ gh[p].gNow < gh[p].fresh.due
    /\ gh[p].gNow > gh[p].fresh.due - FetchTTL
    /\ gh[p].nUp = 0 /\ loc[p].val = gh[p].fresh.data

\* C4: when the upstream exchange of a miss fails in any way, that step makes
\* fetchDepartures return an error and nil, the call has made no Set call and
\* the map is left as it was.
C4_FailureNotCached ==
  [][\A p \in Procs :
       (pc[p] = "fetch_wait" /\ pc'[p] # "fetch_wait" /\ Failed(gh'[p].resp))
         => /\ pc'[p] = "done"
            /\ loc'[p].err # NoErr
            /\ loc'[p].val = NilData
            /\ gh'[p].nSet = 0
            /\ entries' = entries]_vars

C4_Witness ==
  \E p \in Procs :
    /\ loc[p].op = "fetch" /\ pc[p] = "done" /\ Failed(gh[p].resp)
    /\ gh[p].resp.status = 503
    /\ ~loc[p].entry.present /\ ~entries[loc[p].key].present

\* C5: a Get on a key whose latest returned Set (value v, made at instant s
\* with ttl > 0) has not been followed by another Set on the key, and which
\* reads the clock before s + ttl, returns (v, true).
C5_FreshWithinTTL ==
  \A p \in Procs :
    (HasRead(p) /\ gh[p].fresh.ver > 0 /\ gh[p].rSeq = gh[p].fresh.ver
       /\ gh[p].gNow < gh[p].fresh.due)
      => loc[p].ok /\ loc[p].got = gh[p].fresh.data

C5_Witness ==
  \E p \in Procs :
    /\ loc[p].op = "get" /\ pc[p] = "done"
    /\ gh[p].fresh.ver > 0 /\ ~gh[p].fresh.fetch /\ gh[p].rSeq = gh[p].fresh.ver
    /\ gh[p].gNow < gh[p].fresh.due
    /\ loc[p].ok /\ loc[p].got = gh[p].fresh.data

\* C6: whenever the latest Set on a key has returned, the key's entry is
\* exactly that Set's value and that Set's instant + ttl, whatever entry it
\* replaced (expired or not, with a later expiry or not).
C6_Overwrite ==
  \A k \in Keys :
    (seq[k] > 0 /\ lastSet[k].ver = seq[k])
      => entries[k] = [present |-> TRUE, data |-> lastSet[k].data,
                       expiresAt |-> lastSet[k].due,
                       dVer |-> seq[k], eVer |-> seq[k]]

\* the second of two Sets on a key has returned, it replaced an entry with a
\* later expiry and another value
C6_Witness ==
  \E p \in Procs :
    LET k == loc[p].key
    IN /\ pc[p] = "done" /\ gh[p].ver = 2 /\ lastSet[k].ver = 2 /\ seq[k] = 2
       /\ gh[p].prior.present
       /\ gh[p].prior.expiresAt > loc[p].expiresAt
       /\ gh[p].prior.data # loc[p].data
       /\ entries[k].data = loc[p].data
       /\ entries[k].expiresAt = loc[p].expiresAt

\* C7: the entry a Get looks up is either absent or has its value and its
\* expiry stored by one and the same Set call.
C7_NoTornRead ==
  \A p \in Procs :
    HasRead(p) => loc[p].entry.dVer = loc[p].entry.eVer

\* a Get that overlapped a Set on its key (it started before that Set had
\* returned) and looked the entry up after it
C7_Witness ==
  \E p \in Procs :
    /\ HasRead(p) /\ loc[p].entry.present
    /\ gh[p].fresh.ver < loc[p].entry.dVer

\* C8: a Get that starts after a Set on its key has returned looks up an
\* entry stored by that Set or a later one, and reports it found while the
\* clock it reads is before the entry's expiry.
C8_SetVisible ==
  \A p \in Procs :
    (HasRead(p) /\ gh[p].fresh.ver > 0)
      => /\ loc[p].entry.present
         /\ loc[p].entry.dVer >= gh[p].fresh.ver
         /\ loc[p].entry.eVer >= gh[p].fresh.ver
         /\ (gh[p].gNow < loc[p].entry.expiresAt => loc[p].ok)

C8_Witness ==
  \E p \in Procs :
    /\ HasRead(p) /\ gh[p].fresh.ver > 0 /\ ~gh[p].fresh.fetch /\ loc[p].ok
    /\ loc[p].entry.dVer = gh[p].fresh.ver
    /\ loc[p].got = gh[p].fresh.data

\* C9: a fetchDepartures whose upstream call is in flight holds the cache
\* lock in neither mode.
C9_NoLockAcrossUpstream ==
  \A p \in Procs :
    pc[p] = "fetch_wait" => p \notin readers /\ wOwner # p

\* while one upstream call is in flight another goroutine is inside the lock
C9_Witness ==
  \E p, q \in Procs :
    /\ p # q
    /\ pc[p] = "fetch_wait"
    /\ (q \in readers \/ wOwner = q)

\* C10: a fetchDepartures that found an expired entry and whose upstream
\* failed returns an error and nil, makes no Set call, and the entry is
\* still in the map as it was unless another Set has taken the lock since.
C10_NoStaleFallback ==
  \A p \in Procs :
    (loc[p].op = "fetch" /\ pc[p] = "done" /\ loc[p].entry.present /\ ~loc[p].ok
       /\ Failed(gh[p].resp))
      => /\ loc[p].err # NoErr
         /\ loc[p].val = NilData
         /\ gh[p].nSet = 0
         /\ (seq[loc[p].key] = gh[p].rSeq => entries[loc[p].key] = loc[p].entry)

C10_Witness ==
  \E p \in Procs :
    /\ loc[p].op = "fetch" /\ pc[p] = "done" /\ loc[p].entry.present /\ ~loc[p].ok
    /\ loc[p].entry.expiresAt < gh[p].gNow
    /\ Failed(gh[p].resp) /\ loc[p].err # NoErr
    /\ entries[loc[p].key] = loc[p].entry

\* C11: misses are not coalesced: a fetchDepartures whose Get reports a miss
\* goes on to its own upstream call in that very step, however many upstream
\* calls for the key are already in flight.
C11_NoCoalescing ==
  [][\A p \in Procs :
       (pc[p] = "get_read" /\ loc[p].op = "fetch" /\ pc'[p] # "get_read" /\ ~loc'[p].ok)
         => /\ pc'[p] = "fetch_wait"
            /\ gh'[p].nUp = 1]_vars

\* two upstream calls for one key in flight at once
C11_Witness ==
  \E p, q \in Procs :
    /\ p # q
    /\ pc[p] = "fetch_wait" /\ pc[q] = "fetch_wait"
    /\ loc[p].key = loc[q].key
    /\ gh[p].nUp = 1 /\ gh[q].nUp = 1

\* C12: a fetchDepartures invocation makes at most one upstream call,
\* whatever the outcome of that call.
C12_NoRetry ==
  \A p \in Procs : gh[p].nUp <= 1

C12_Witness ==
  \E p \in Procs :
    /\ loc[p].op = "fetch" /\ pc[p] = "done"
    /\ Failed(gh[p].resp) /\ gh[p].nUp = 1

\* C14: eviction is lazy: a key once in the map stays in the map, the step
\* in which Get looks an entry up leaves the map as it is, and an entry
\* changes only in a step of a Set on its key.
C14_LazyEviction ==
  [][/\ \A k \in Keys : entries[k].present => entries'[k].present
     /\ \A p \in Procs : pc[p] = "get_read" /\ pc'[p] # "get_read" => entries' = entries
     /\ \A k \in Keys :
          entries'[k] # entries[k]
            => \E p \in Procs : pc[p] \in {"set_data", "set_exp"} /\ loc[p].key = k]_vars

\* a Get has reported an expired entry absent and the entry is still stored
C14_Witness ==
  \E p \in Procs :
    /\ HasRead(p) /\ loc[p].entry.present /\ ~loc[p].ok
    /\ entries[loc[p].key] = loc[p].entry

\* C18: a Set inside its critical section excludes every other Set and
\* every Get from theirs.
C18_WriterExclusive ==
  \A p \in Procs :
    pc[p] \in {"set_data", "set_exp"}
      => /\ wOwner = p
         /\ readers = {}
         /\ \A q \in Procs \ {p} : pc[q] \notin {"set_data", "set_exp", "get_read"}

\* two Gets are inside their critical sections at once
C18_Witness ==
  /\ Cardinality(readers) = 2
  /\ \A p \in readers : pc[p] = "get_read"
  /\ wOwner = None

\* C20: keys are isolated: a step of a Set on one key leaves the entry of
\* every other key as it was.
C20_KeyIsolation ==
  [][\A p \in Procs :
       (pc[p] \in {"set_data", "set_exp"} /\ pc'[p] # pc[p])
         => \A k \in Keys \ {loc[p].key} : entries'[k] = entries[k]]_vars

\* a Set on one key has returned while the other key holds an entry
C20_Witness ==
  \E p \in Procs :
    /\ pc[p] = "done" /\ gh[p].ver > 0
    /\ \E k \in Keys \ {loc[p].key} : entries[k].present /\ entries[k].dVer = entries[k].eVer

\* C13: every GET /next-departures that has been answered got either 200
\* with the JSON encoding of the complete payload fetchDepartures returned
\* (the upstream's or the cached one), or, when fetchDepartures returned an
\* error, 500 with the fixed text, which is not the error's detail.
C13_TwoOutcomes ==
  \A p \in Procs :
    (loc[p].op = "fetch" /\ pc[p] = "done") =>
      \/ /\ loc[p].err = NoErr
         /\ loc[p].status = 200
         /\ loc[p].val \in Payloads
         /\ loc[p].body = [kind |-> "json", content |-> loc[p].val]
         /\ loc[p].val = IF loc[p].ok THEN loc[p].entry.data ELSE gh[p].resp.body
      \/ /\ loc[p].err # NoErr
         /\ loc[p].status = 500
         /\ loc[p].body = [kind |-> "text", content |-> "Failed to fetch departures"]
         /\ loc[p].body.content # loc[p].err

\* one request is answered 500 after a failed upstream exchange
C13_Witness ==
  \E p \in Procs :
    /\ loc[p].op = "fetch" /\ pc[p] = "done"
    /\ loc[p].status = 500 /\ Failed(gh[p].resp)

\* C17: a request in service carries Access-Control-Allow-Origin, equal to
\* its Origin, exactly when the Origin is non-empty and is in the allow-list
\* or the allow-list contains "*", and carries no CORS header otherwise;
\* every OPTIONS request is answered 204 with no body in the step it
\* arrives, without the handler: no upstream call, no Get, no Set, and the
\* cache and its lock are left as they were.
C17_CorsLayer ==
  /\ [](\A p \in Procs :
          pc[p] # "idle" =>
            /\ LET o == loc[p].origin
                   allowed == o # "" /\ (o \in config.AllowedOrigins
                                         \/ "*" \in config.AllowedOrigins)
               IN IF allowed
                    THEN /\ <<"Access-Control-Allow-Origin", o>> \in loc[p].cors
                         /\ \A h \in loc[p].cors :
                              h[1] = "Access-Control-Allow-Origin" => h[2] = o
                    ELSE loc[p].cors = {}
            /\ loc[p].method = "OPTIONS" =>
                 /\ pc[p] = "done"
                 /\ loc[p].status = 204
                 /\ loc[p].body = NoBody
                 /\ loc[p].op # "fetch"
                 /\ gh[p].nUp = 0 /\ gh[p].nSet = 0 /\ gh[p].gNow = ZeroTime)
  /\ [][\A p \in Procs :
          (pc[p] = "idle" /\ loc'[p].method = "OPTIONS") =>
            UNCHANGED <<entries, readers, wOwner, seq, lastSet, now>>]_vars

\* a preflight from an origin that is not allowed, under an allow-list
\* that names another origin, has been answered
C17_Witness ==
  \E p \in Procs :
    /\ pc[p] = "done" /\ loc[p].method = "OPTIONS"
    /\ loc[p].origin = "https://b" /\ config.AllowedOrigins = {"https://a"}
    /\ loc[p].cors = {}

\* C16: when the context of a request has been cancelled while its upstream
\* call is in flight, the next thing that call does is fail: client.Do
\* returns the context's error (not the client timeout), fetchDepartures
\* returns that error without calling Cache.Set, the cache is unchanged
\* and the request is answered 500.
C16_CancelAbandons ==
  [][\A p \in Procs :
       (pc[p] = "fetch_wait" /\ loc[p].cancelled /\ pc'[p] # "fetch_wait") =>
         /\ pc'[p] = "done"
         /\ loc'[p].err = "canceled"
         /\ loc'[p].val = NilData
         /\ loc'[p].status = 500
         /\ gh'[p].nSet = 0
         /\ gh'[p].resp.doErr = "canceled"
         /\ entries' = entries /\ seq' = seq /\ wOwner' = wOwner]_vars

\* a request cancelled during its upstream call has returned
C16_Witness ==
  \E p \in Procs :
    /\ pc[p] = "done" /\ loc[p].op = "fetch"
    /\ loc[p].cancelled /\ gh[p].nUp = 1 /\ loc[p].err = "canceled"

\* C19: in the server every stored entry is under the configured stop, its
\* data is a decoded payload (never nil, an error or an undecodable body),
\* and every step that stores data under a key is the Set of a
\* fetchDepartures call for that key whose own upstream exchange returned
\* 200 and decoded to exactly that data; every hit returns such an entry's
\* data.
C19_EntriesFromUpstream ==
  /\ [](\A k \in Keys :
          entries[k].present =>
            /\ k = config.StopID
            /\ entries[k].data \in Payloads
            /\ lastSet[k].ver > 0 => lastSet[k].fetch /\ lastSet[k].data \in Payloads)
  /\ [](\A p \in Procs :
          (pc[p] = "done" /\ loc[p].op = "fetch" /\ loc[p].ok) =>
            /\ loc[p].val \in Payloads
            /\ loc[p].val = entries[loc[p].key].data \/ seq[loc[p].key] > gh[p].rSeq)
  /\ [][\A k \in Keys :
          entries'[k].dVer # entries[k].dVer =>
            \E p \in Procs :
              /\ pc[p] = "set_data" /\ pc'[p] = "set_exp"
              /\ loc[p].op = "fetch" /\ loc[p].key = k
              /\ gh[p].nUp = 1
              /\ gh[p].resp.doErr = NoErr /\ gh[p].resp.status = 200
              /\ gh[p].resp.body \in Payloads
              /\ entries'[k].data = gh[p].resp.body]_vars

\* a hit returns the payload an earlier request fetched and stored
C19_Witness ==
  \E p \in Procs :
    /\ pc[p] = "done" /\ loc[p].op = "fetch" /\ loc[p].ok
    /\ lastSet[loc[p].key].fetch
    /\ loc[p].val = lastSet[loc[p].key].data

\* C15: under fair scheduling every Get that has been called and every Set
\* that has been called returns, whatever the other callers do; and a
\* goroutine holds the read lock only inside Get and the write lock only
\* inside Set, so none is held once the call has returned.
C15_GetSetTerminate ==
  /\ [](\A p \in Procs :
          /\ p \in readers => pc[p] = "get_read"
          /\ wOwner = p => pc[p] \in {"set_data", "set_exp"})
  /\ \A p \in Procs : (pc[p] = "get_rlock") ~> (pc[p] = "done" /\ p \notin readers)
  /\ \A p \in Procs : (pc[p] = "set_lock") ~> (pc[p] = "done" /\ wOwner # p)

\* a Get waits in RLock while another goroutine's Set holds the lock
C15_Witness ==
  \E p, q \in Procs :
    /\ p # q
    /\ pc[p] = "get_rlock" /\ loc[p].op = "get"
    /\ wOwner = q /\ pc[q] = "set_exp"

====
